---------------------------- MODULE Spec2Model ----------------------------
(***************************************************************************)
(* The POST /api/instagram/inspect pipeline of src/main.py: request-body   *)
(* parsing (InspectRequest), INSTAGRAM_URL_RE validation, one outbound     *)
(* fetch, extract_meta_tags, and the assembly of the MediaItem list.       *)
(*                                                                         *)
(* Text is a sequence of one-character strings.  Python values that the    *)
(* handler compares with each other carry their class (str, Url, NoneType).*)
(* pydantic is the v2 line: HttpUrl parses to a normalised Url object that *)
(* is not a str.                                                           *)
(*                                                                         *)
(* The URL model covers texts of the characters 0x20..0x7e.  Outside it    *)
(* are: control characters, tabs and line breaks; characters past 0x7e,    *)
(* written as such or as percent escapes of a host; '^' in a path; and     *)
(* punycode labels (xn--) that decode to anything but ASCII and the        *)
(* lower-case letters U+00E0..U+00FF.                                      *)
(***************************************************************************)
EXTENDS Integers, Sequences, FiniteSets, TLC

(***************************************************************************)
(* Characters                                                              *)
(***************************************************************************)
UpperSeq == <<"A", "B", "C", "D", "E", "F", "G", "H", "I", "J", "K", "L", "M", "N", "O", "P", "Q", "R", "S", "T", "U", "V", "W", "X", "Y", "Z">>
LowerSeq == <<"a", "b", "c", "d", "e", "f", "g", "h", "i", "j", "k", "l", "m", "n", "o", "p", "q", "r", "s", "t", "u", "v", "w", "x", "y", "z">>
DigitSeq == <<"0", "1", "2", "3", "4", "5", "6", "7", "8", "9">>
HexSeq == <<"0", "1", "2", "3", "4", "5", "6", "7", "8", "9", "a", "b", "c", "d", "e", "f">>

Range(s) == {s[i] : i \in 1..Len(s)}

IndexOf(c, s) == CHOOSE i \in 1..Len(s) : s[i] = c

\* The upper-case letters.
UpperSet == Range(UpperSeq)

\* str.lower() on one character (ASCII).
ToLower(c) == IF c \in UpperSet THEN LowerSeq[IndexOf(c, UpperSeq)] ELSE c

\* str.lower()
StrLower(s) == [i \in 1..Len(s) |-> ToLower(s[i])]

\* Code points 0x20..0x7e, in order.
AsciiSeq ==
  <<
     " ", "!", "\"", "#", "$", "%", "&", "'", "(", ")", "*", "+", ",", "-", ".", "/",
     "0", "1", "2", "3", "4", "5", "6", "7", "8", "9", ":", ";", "<", "=", ">", "?",
     "@", "A", "B", "C", "D", "E", "F", "G", "H", "I", "J", "K", "L", "M", "N", "O",
     "P", "Q", "R", "S", "T", "U", "V", "W", "X", "Y", "Z", "[", "\\", "]", "^", "_",
     "U+0060", "a", "b", "c", "d", "e", "f", "g", "h", "i", "j", "k", "l", "m", "n", "o",
     "p", "q", "r", "s", "t", "u", "v", "w", "x", "y", "z", "{", "|", "}", "~"
  >>

RECURSIVE Concat(_)
\* Concatenation of a sequence of texts.
Concat(parts) ==
  IF parts = <<>> THEN <<>> ELSE Head(parts) \o Concat(Tail(parts))

\* s has lit at position p (1-based).
LitAt(s, p, lit) ==
  /\ p + Len(lit) - 1 <= Len(s)
  /\ SubSeq(s, p, p + Len(lit) - 1) = lit

StartsWith(s, lit) == LitAt(s, 1, lit)

\* s has lit at position p, letter case ignored; lit is in lower case.
LitAtI(s, p, lit) ==
  /\ p + Len(lit) - 1 <= Len(s)
  /\ \A i \in 1..Len(lit) : ToLower(s[p + i - 1]) = lit[i]

\* s from position p to its end.
From(s, p) == SubSeq(s, p, Len(s))

(***************************************************************************)
(* Regular-expression matching as sets of positions: P is the set of       *)
(* positions at which the rest of the pattern may start.                   *)
(***************************************************************************)
AfterLit(s, P, lit) == {p + Len(lit) : p \in {q \in P : LitAt(s, q, lit)}}

\* (a|b|...)
AfterAlt(s, P, lits) == UNION {AfterLit(s, P, l) : l \in lits}

\* (a|b|...)?
AfterOpt(s, P, lits) == P \cup AfterAlt(s, P, lits)

\* [cls]+
AfterPlus(s, P, cls) ==
  {q \in 2..(Len(s) + 1) : \E p \in P : p < q /\ \A i \in p..(q - 1) : s[i] \in cls}

\* [A-Za-z0-9_-]
IdChars == Range(UpperSeq) \cup Range(LowerSeq) \cup Range(DigitSeq) \cup {"_", "-"}

\* INSTAGRAM_URL_RE.match(s): the set of end positions of a match anchored at
\* the start of s; the match succeeds iff the set is not empty.
INSTAGRAM_URL_RE_ends(s) ==
  LET P1 == AfterOpt(s, {1}, {<<"h", "t", "t", "p", ":", "/", "/">>, <<"h", "t", "t", "p", "s", ":", "/", "/">>})
      P2 == AfterOpt(s, P1, {<<"w", "w", "w", ".">>})
      P3 == AfterLit(s, P2, <<"i", "n", "s", "t", "a", "g", "r", "a", "m", ".", "c", "o", "m", "/">>)
      P4 == AfterAlt(s, P3, {<<"p">>, <<"r", "e", "e", "l">>, <<"r", "e", "e", "l", "s">>, <<"t", "v">>})
      P5 == AfterLit(s, P4, <<"/">>)
      P6 == AfterPlus(s, P5, IdChars)
  IN  AfterOpt(s, P6, {<<"/">>})

\* The whole string must match: a validator that is not a prefix match.
INSTAGRAM_URL_RE_full(s) == (Len(s) + 1) \in INSTAGRAM_URL_RE_ends(s)

\* bool(INSTAGRAM_URL_RE.match(s))
INSTAGRAM_URL_RE(s) == INSTAGRAM_URL_RE_ends(s) # {}

(***************************************************************************)
(* Python values                                                           *)
(***************************************************************************)
Str(s) == [cls |-> "str", v |-> s]
None == [cls |-> "NoneType", v |-> <<>>]
UrlObj(s) == [cls |-> "Url", v |-> s]

\* bool(x) for None and str
Truthy(x) == x.cls # "NoneType" /\ Len(x.v) > 0

\* a or b
PyOr(a, b) == IF Truthy(a) THEN a ELSE b


(***************************************************************************)
(* pydantic HttpUrl: the URL parser behind InspectRequest.url and the url  *)
(* and thumbnail fields of MediaItem.  The text is parsed as the WHATWG    *)
(* URL parser of pydantic-core does it; the operators below follow that    *)
(* parser state by state.                                                  *)
(***************************************************************************)
\* Position of the first ':' of s, or 0.
ColonPos(s) ==
  IF \E i \in 1..Len(s) : s[i] = ":"
  THEN CHOOSE i \in 1..Len(s) : s[i] = ":" /\ \A j \in 1..(i - 1) : s[j] # ":"
  ELSE 0

\* First position at or after p that holds none of the characters in cs, or
\* Len(s) + 1.
SkipChars(s, p, cs) ==
  IF \E i \in p..Len(s) : s[i] \notin cs
  THEN CHOOSE i \in p..Len(s) : s[i] \notin cs /\ \A j \in p..(i - 1) : s[j] \in cs
  ELSE Len(s) + 1

\* First position at or after p that holds one of the characters in cs, or
\* Len(s) + 1.
FindChars(s, p, cs) ==
  IF \E i \in p..Len(s) : s[i] \in cs
  THEN CHOOSE i \in p..Len(s) : s[i] \in cs /\ \A j \in p..(i - 1) : s[j] \notin cs
  ELSE Len(s) + 1

RECURSIVE SplitOn(_, _)
\* s.split(...) at every character of seps: the pieces, empty ones included.
SplitOn(s, seps) ==
  LET p == FindChars(s, 1, seps)
  IN  IF p > Len(s) THEN <<s>>
      ELSE <<SubSeq(s, 1, p - 1)>> \o SplitOn(From(s, p + 1), seps)

RECURSIVE Join(_, _)
\* sep.join(parts)
Join(parts, sep) ==
  IF parts = <<>> THEN <<>>
  ELSE IF Len(parts) = 1 THEN parts[1]
  ELSE parts[1] \o sep \o Join(Tail(parts), sep)

DigitSet == Range(DigitSeq)
LowerSet == Range(LowerSeq)
HexSet == Range(HexSeq)

\* Value of a decimal, octal or hex digit.
DigitVal(c) == IndexOf(ToLower(c), HexSeq) - 1

\* Code of a character of AsciiSeq.
Ord(c) == IndexOf(c, AsciiSeq) + 31

RECURSIVE Dec(_)
\* The decimal text of n >= 0.
Dec(n) == IF n < 10 THEN <<DigitSeq[n + 1]>> ELSE Dec(n \div 10) \o <<DigitSeq[(n % 10) + 1]>>

RECURSIVE Hex(_)
\* The hex text of n >= 0, lower case, no leading zero.
Hex(n) == IF n < 16 THEN <<HexSeq[n + 1]>> ELSE Hex(n \div 16) \o <<HexSeq[(n % 16) + 1]>>

UpperHexSeq == <<"0", "1", "2", "3", "4", "5", "6", "7", "8", "9", "A", "B", "C", "D", "E", "F">>

\* %XX of a character, upper-case hex.
PctOf(c) ==
  <<"%", UpperHexSeq[(Ord(c) \div 16) + 1], UpperHexSeq[(Ord(c) % 16) + 1]>>

\* utf8_percent_encode(s, set) over ASCII text.
PctEncode(s, set) ==
  Concat([i \in 1..Len(s) |-> IF s[i] \in set THEN PctOf(s[i]) ELSE <<s[i]>>])

\* The percent-encode sets of the parser, within 0x20..0x7e.
FRAGMENT_SET == {" ", "\"", "<", ">", "U+0060"}
PATH_SET == FRAGMENT_SET \cup {"#", "?", "{", "}"}
USERINFO_SET == PATH_SET \cup {"/", ":", ";", "=", "@", "[", "\\", "]", "^", "|"}
SPECIAL_QUERY_SET == {" ", "\"", "#", "<", ">", "'"}

\* Url::parse drops blanks at both ends of the input.
Trim(s) ==
  LET a == SkipChars(s, 1, {" "})
      b == IF a > Len(s) THEN 0
           ELSE CHOOSE i \in a..Len(s) :
                  s[i] # " " /\ \A j \in (i + 1)..Len(s) : s[j] = " "
  IN  SubSeq(s, a, b)

\* parse_scheme succeeds: a letter, then letters, digits, '+', '-', '.', up
\* to a ':'.
SchemeLike(s) ==
  /\ ColonPos(s) > 1
  /\ ToLower(s[1]) \in LowerSet
  /\ \A i \in 1..(ColonPos(s) - 1) :
       ToLower(s[i]) \in LowerSet \cup DigitSet \cup {"+", "-", "."}

\* SchemeType: "special" for the special schemes but file, "file", "other".
SchemeType(scheme) ==
  IF scheme \in {<<"h", "t", "t", "p">>, <<"h", "t", "t", "p", "s">>, <<"w", "s">>, <<"w", "s", "s">>, <<"f", "t", "p">>} THEN "special"
  ELSE IF scheme = <<"f", "i", "l", "e">> THEN "file"
  ELSE "other"

\* default_port(scheme), 0 when the scheme has none.
DefaultPort(scheme) ==
  IF scheme \in {<<"h", "t", "t", "p">>, <<"w", "s">>} THEN 80
  ELSE IF scheme \in {<<"h", "t", "t", "p", "s">>, <<"w", "s", "s">>} THEN 443
  ELSE IF scheme = <<"f", "t", "p">> THEN 21
  ELSE 0

(***************************************************************************)
(* IPv4 hosts.  A u32 is kept as two 16-bit halves, so that its overflow   *)
(* is seen without leaving small integers.                                 *)
(***************************************************************************)
MsgEmptyHost == "Input should be a valid URL, empty host"
MsgIdna == "Input should be a valid URL, invalid international domain name"
MsgIpv4 == "Input should be a valid URL, invalid IPv4 address"
MsgIpv6 == "Input should be a valid URL, invalid IPv6 address"
MsgPort == "Input should be a valid URL, invalid port number"
MsgDomainChar == "Input should be a valid URL, invalid domain character"
MsgRelative == "Input should be a valid URL, relative URL without a base"

RECURSIVE DecValue(_, _, _)
\* The number of the decimal digits ds on top of acc, -1 when it passes max.
DecValue(ds, acc, max) ==
  IF ds = <<>> THEN acc
  ELSE IF acc * 10 + DigitVal(Head(ds)) > max THEN -1
  ELSE DecValue(Tail(ds), acc * 10 + DigitVal(Head(ds)), max)

RECURSIVE U32Digits(_, _, _, _)
\* u32::from_str_radix: the digits ds read in radix r on top of the number
\* 65536 * hi + lo: [ok, over, b], over when the value leaves u32, b its four
\* bytes, most significant first.
U32Digits(ds, r, hi, lo) ==
  IF ds = <<>>
  THEN [ok |-> TRUE, over |-> FALSE,
        b |-> <<hi \div 256, hi % 256, lo \div 256, lo % 256>>]
  ELSE IF hi * r + (lo * r + DigitVal(Head(ds))) \div 65536 >= 65536
  THEN [ok |-> TRUE, over |-> TRUE, b |-> <<0, 0, 0, 0>>]
  ELSE U32Digits(Tail(ds), r,
                 hi * r + (lo * r + DigitVal(Head(ds))) \div 65536,
                 (lo * r + DigitVal(Head(ds))) % 65536)

\* The digits ds of a number in radix r: not ok when one of them is no digit
\* of the radix.
Ipv4Digits(ds, r) ==
  IF \A i \in 1..Len(ds) : ToLower(ds[i]) \in HexSet /\ DigitVal(ds[i]) < r
  THEN U32Digits(ds, r, 0, 0)
  ELSE [ok |-> FALSE, over |-> FALSE, b |-> <<0, 0, 0, 0>>]

\* parse_ipv4number: [ok, over, b]; ok is false for Err(()), over is true
\* for Ok(None).
parse_ipv4number(part) ==
  IF part = <<>> THEN [ok |-> FALSE, over |-> FALSE, b |-> <<0, 0, 0, 0>>]
  ELSE IF Len(part) >= 2 /\ part[1] = "0" /\ part[2] \in {"x", "X"}
  THEN Ipv4Digits(From(part, 3), 16)
  ELSE IF Len(part) >= 2 /\ part[1] = "0" THEN Ipv4Digits(From(part, 2), 8)
  ELSE Ipv4Digits(part, 10)

\* ends_in_a_number: the last label of the domain, the one before it when
\* the domain ends in a dot, is made of digits or parses as a number.
ends_in_a_number(domain) ==
  \E parts \in {SplitOn(domain, {"."})} :
    \E last \in {IF parts[Len(parts)] # <<>> THEN parts[Len(parts)]
                 ELSE IF Len(parts) >= 2 THEN parts[Len(parts) - 1] ELSE <<>>} :
      \/ last # <<>> /\ \A i \in 1..Len(last) : last[i] \in DigitSet
      \/ parse_ipv4number(last).ok

\* Display of an Ipv4Addr
write_ipv4(b) == Join([k \in 1..4 |-> Dec(b[k])], <<".">>)

\* The address of the numbers nums, as a host [err, text]: every number but
\* the last fits a byte and the last fits the bytes that remain.
Ipv4OfNumbers(nums) ==
  LET n == Len(nums)
  IN  IF \/ \E i \in 1..n : ~nums[i].ok \/ nums[i].over
         \/ \E k \in 1..(n - 1) : nums[n].b[k] # 0
         \/ \E i \in 1..(n - 1) : \E k \in 1..3 : nums[i].b[k] # 0
      THEN [err |-> MsgIpv4, text |-> <<>>]
      ELSE [err |-> "",
            text |-> write_ipv4([k \in 1..4 |->
                                   IF k <= n - 1 THEN nums[k].b[4] ELSE nums[n].b[k]])]

\* The address of the dot-separated pieces all of a domain.
Ipv4OfParts(all) ==
  LET parts == IF all[Len(all)] = <<>> THEN SubSeq(all, 1, Len(all) - 1) ELSE all
  IN  IF Len(parts) = 0 \/ Len(parts) > 4 THEN [err |-> MsgIpv4, text |-> <<>>]
      ELSE Ipv4OfNumbers([i \in 1..Len(parts) |-> parse_ipv4number(parts[i])])

\* parse_ipv4addr and the display of the address: the host [err, text].
parse_ipv4addr(domain) == Ipv4OfParts(SplitOn(domain, {"."}))

(***************************************************************************)
(* IPv6 hosts.  Pieces are kept 1-based; the piece pointer pp and the      *)
(* compress pointer cp count as in the parser (cp is -1 for None).         *)
(***************************************************************************)
RECURSIVE HexWord(_, _)
\* Value of the hex text h on top of acc.
HexWord(h, acc) ==
  IF h = <<>> THEN acc ELSE HexWord(Tail(h), 16 * acc + DigitVal(Head(h)))

RECURSIVE Ipv6V4(_, _, _, _, _, _)
RECURSIVE Ipv6V4Run(_, _, _, _, _, _, _)
\* The dotted-decimal tail of an IPv6 address, from position i on, seen
\* numbers read so far: [ok, pieces, pp, cp].
Ipv6V4(x, i, pieces, pp, cp, seen) ==
  IF i > Len(x) THEN [ok |-> seen = 4, pieces |-> pieces, pp |-> pp, cp |-> cp]
  ELSE IF seen = 0 THEN Ipv6V4Run(x, i, SkipChars(x, i, DigitSet), pieces, pp, cp, seen)
  ELSE IF seen < 4 /\ x[i] = "."
  THEN Ipv6V4Run(x, i + 1, SkipChars(x, i + 1, DigitSet), pieces, pp, cp, seen)
  ELSE [ok |-> FALSE, pieces |-> pieces, pp |-> pp, cp |-> cp]

\* One number of the dotted-decimal tail, its digits at a..(e - 1).
Ipv6V4Run(x, a, e, pieces, pp, cp, seen) ==
  IF \/ e = a
     \/ e - a > 1 /\ x[a] = "0"
     \/ e - a > 3
     \/ DecValue(SubSeq(x, a, e - 1), 0, 255) = -1
  THEN [ok |-> FALSE, pieces |-> pieces, pp |-> pp, cp |-> cp]
  ELSE Ipv6V4(x, e,
              [pieces EXCEPT ![pp + 1] = @ * 256 + DecValue(SubSeq(x, a, e - 1), 0, 255)],
              IF seen + 1 \in {2, 4} THEN pp + 1 ELSE pp, cp, seen + 1)

RECURSIVE Ipv6Main(_, _, _, _, _)
RECURSIVE Ipv6Piece(_, _, _, _, _, _)
\* The main loop of parse_ipv6addr from position i on: [ok, pieces, pp, cp].
Ipv6Main(x, i, pieces, pp, cp) ==
  IF i > Len(x) THEN [ok |-> TRUE, pieces |-> pieces, pp |-> pp, cp |-> cp]
  ELSE IF pp = 8 THEN [ok |-> FALSE, pieces |-> pieces, pp |-> pp, cp |-> cp]
  ELSE IF x[i] = ":"
  THEN IF cp # -1 THEN [ok |-> FALSE, pieces |-> pieces, pp |-> pp, cp |-> cp]
       ELSE Ipv6Main(x, i + 1, pieces, pp + 1, pp + 1)
  ELSE Ipv6Piece(x, i,
                 SkipChars(SubSeq(x, 1, IF Len(x) < i + 3 THEN Len(x) ELSE i + 3), i,
                           HexSet \cup Range(UpperHexSeq)),
                 pieces, pp, cp)

\* One piece of the address: up to four hex digits at i..(stop - 1).
Ipv6Piece(x, i, stop, pieces, pp, cp) ==
  IF stop > Len(x)
  THEN Ipv6Main(x, stop, [pieces EXCEPT ![pp + 1] = HexWord(SubSeq(x, i, stop - 1), 0)],
                pp + 1, cp)
  ELSE IF x[stop] = "."
  THEN IF stop = i \/ pp > 6 THEN [ok |-> FALSE, pieces |-> pieces, pp |-> pp, cp |-> cp]
       ELSE Ipv6V4(x, i, pieces, pp, cp, 0)
  ELSE IF x[stop] = ":" /\ stop + 1 <= Len(x)
  THEN Ipv6Main(x, stop + 1, [pieces EXCEPT ![pp + 1] = HexWord(SubSeq(x, i, stop - 1), 0)],
                pp + 1, cp)
  ELSE [ok |-> FALSE, pieces |-> pieces, pp |-> pp, cp |-> cp]

\* Number of zero pieces from piece i on.
ZeroRun(pieces, i) ==
  IF \E j \in i..8 : pieces[j] # 0
  THEN (CHOOSE j \in i..8 : pieces[j] # 0 /\ \A k \in i..(j - 1) : pieces[k] = 0) - i
  ELSE 9 - i

\* The pieces a..b in hex, ':' between them.
Ipv6Text(pieces, a, b) ==
  Join([k \in 1..(b - a + 1) |-> Hex(pieces[a + k - 1])], <<":">>)

\* write_ipv6 with the zero run that starts at piece best: a run of two or
\* more zero pieces is written "::".
Ipv6Compressed(pieces, best) ==
  IF ZeroRun(pieces, best) < 2 THEN Ipv6Text(pieces, 1, 8)
  ELSE Ipv6Text(pieces, 1, best - 1) \o <<":", ":">>
         \o Ipv6Text(pieces, best + ZeroRun(pieces, best), 8)

\* write_ipv6: the longest zero run is the one compressed, the first of them
\* when several are as long.
write_ipv6(pieces) ==
  Ipv6Compressed(pieces,
                 CHOOSE i \in 1..8 :
                   /\ \A j \in 1..8 : ZeroRun(pieces, j) <= ZeroRun(pieces, i)
                   /\ \A j \in 1..(i - 1) : ZeroRun(pieces, j) < ZeroRun(pieces, i))

\* The end of parse_ipv6addr on the result m of the main loop, and the
\* display of the address: the host [err, text].
Ipv6Done(m) ==
  IF ~m.ok \/ (m.cp = -1 /\ m.pp # 8) THEN [err |-> MsgIpv6, text |-> <<>>]
  ELSE [err |-> "",
        text |-> <<"[">>
                   \o write_ipv6([k \in 1..8 |->
                                    IF m.cp = -1 \/ k <= m.cp THEN m.pieces[k]
                                    ELSE IF k > 8 - (m.pp - m.cp)
                                    THEN m.pieces[k - (8 - m.pp)]
                                    ELSE 0])
                   \o <<"]">>]

\* parse_ipv6addr of the text x between the brackets.
parse_ipv6addr(x) ==
  IF Len(x) < 2 \/ (x[1] = ":" /\ x[2] # ":") THEN [err |-> MsgIpv6, text |-> <<>>]
  ELSE IF x[1] = ":" THEN Ipv6Done(Ipv6Main(x, 3, [k \in 1..8 |-> 0], 1, 1))
  ELSE Ipv6Done(Ipv6Main(x, 1, [k \in 1..8 |-> 0], 0, -1))

(***************************************************************************)
(* Domain hosts                                                            *)
(***************************************************************************)
\* Forbidden domain code points within 0x20..0x7e.
ForbiddenHost ==
  {" ", "#", "%", "/", ":", "<", ">", "?", "@", "[", "\\", "]", "^", "|"}

RECURSIVE percent_decode(_)
\* percent_decode(host): [ok, v]; ok is false when an escape gives a byte
\* outside 0x20..0x7e.
percent_decode(h) ==
  IF h = <<>> THEN [ok |-> TRUE, v |-> <<>>]
  ELSE IF /\ h[1] = "%"
          /\ Len(h) >= 3
          /\ ToLower(h[2]) \in HexSet
          /\ ToLower(h[3]) \in HexSet
  THEN LET byte == 16 * DigitVal(h[2]) + DigitVal(h[3])
           r == percent_decode(From(h, 4))
       IN  IF byte < 32 \/ byte > 126 THEN [ok |-> FALSE, v |-> <<>>]
           ELSE [ok |-> r.ok, v |-> <<AsciiSeq[byte - 31]>> \o r.v]
  ELSE LET r == percent_decode(Tail(h))
       IN  [ok |-> r.ok, v |-> <<Head(h)>> \o r.v]

\* Punycode digit of a character, -1 when it is none.
PunyDigit(c) ==
  IF c \in LowerSet THEN IndexOf(c, LowerSeq) - 1
  ELSE IF c \in DigitSet THEN IndexOf(c, DigitSeq) + 25
  ELSE -1

RECURSIVE AdaptLoop(_, _)
AdaptLoop(delta, k) ==
  IF delta > 455 THEN AdaptLoop(delta \div 35, k + 36)
  ELSE k + (36 * delta) \div (delta + 38)

\* The bias adaptation of punycode.
Adapt(delta, numpoints, first) ==
  LET d == IF first THEN delta \div 700 ELSE delta \div 2
  IN  AdaptLoop(d + d \div numpoints, 0)

\* Code points a decoded label may hold besides ASCII: the lower-case letters
\* U+00E0..U+00FF but U+00F7.
LatinLower == (224..255) \ {247}

RECURSIVE PunyDelta(_, _, _, _, _, _, _)
\* One generalised variable-length integer from position p on, added to i:
\* [ok, i, p].  A value that would put the code point past U+00FF is refused
\* at once (top is the largest i that does not).
PunyDelta(x, p, i, w, k, bias, top) ==
  IF p > Len(x) \/ PunyDigit(x[p]) < 0 THEN [ok |-> FALSE, i |-> i, p |-> p]
  ELSE LET d == PunyDigit(x[p])
           t == IF k <= bias THEN 1 ELSE IF k >= bias + 26 THEN 26 ELSE k - bias
           i2 == i + d * w
           w2 == IF w * (36 - t) > top THEN top + 1 ELSE w * (36 - t)
       IN  IF i2 > top THEN [ok |-> FALSE, i |-> i, p |-> p]
           ELSE IF d < t THEN [ok |-> TRUE, i |-> i2, p |-> p + 1]
           ELSE PunyDelta(x, p + 1, i2, w2, k + 36, bias, top)

RECURSIVE PunyLoop(_, _, _, _, _, _)
RECURSIVE PunyInsert(_, _, _, _, _)
\* The insertions of the punycode decoder: [ok, out], out the code points.
PunyLoop(x, p, out, n, i, bias) ==
  IF p > Len(x) THEN [ok |-> TRUE, out |-> out]
  ELSE PunyInsert(x, PunyDelta(x, p, i, 1, 36, bias, (256 - n) * (Len(out) + 1) - 1),
                  out, n, i)

\* The insertion that the delta r stands for.
PunyInsert(x, r, out, n, i) ==
  LET len1 == Len(out) + 1
  IN  IF ~r.ok THEN [ok |-> FALSE, out |-> out]
      ELSE PunyLoop(x, r.p,
                    SubSeq(out, 1, r.i % len1) \o <<n + r.i \div len1>>
                      \o SubSeq(out, (r.i % len1) + 1, Len(out)),
                    n + r.i \div len1, (r.i % len1) + 1, Adapt(r.i - i, len1, i = 0))

\* Position of the last '-' of x, or 0.
LastDash(x) ==
  IF \E i \in 1..Len(x) : x[i] = "-"
  THEN CHOOSE i \in 1..Len(x) : x[i] = "-" /\ \A j \in (i + 1)..Len(x) : x[j] # "-"
  ELSE 0

\* The label xn--x is the punycode of an international label: x decodes, and
\* to a label that holds a letter of LatinLower and nothing else past ASCII.
PunycodeOK(x) ==
  LET d == LastDash(x)
      basic == IF d > 1 THEN SubSeq(x, 1, d - 1) ELSE <<>>
      rest == IF d > 1 THEN From(x, d + 1) ELSE x
  IN  \E r \in {PunyLoop(rest, 1, [i \in 1..Len(basic) |-> Ord(basic[i])], 128, 0, 72)} :
        /\ r.ok
        /\ \E i \in 1..Len(r.out) : r.out[i] >= 128
        /\ \A i \in 1..Len(r.out) : r.out[i] < 128 \/ r.out[i] \in LatinLower

\* domain_to_ascii over the ASCII text d: [ok, v], v in lower case.
domain_to_ascii(d) ==
  LET low == StrLower(d)
      labels == SplitOn(low, {"."})
  IN  [ok |-> /\ Range(low) \cap ForbiddenHost = {}
              /\ \A i \in 1..Len(labels) :
                   StartsWith(labels[i], <<"x", "n", "-", "-">>) => PunycodeOK(From(labels[i], 5)),
       v |-> low]

\* The bracketed host h: [err, text].
BracketHost(h) ==
  IF h[Len(h)] # "]" THEN [err |-> MsgIpv6, text |-> <<>>]
  ELSE parse_ipv6addr(SubSeq(h, 2, Len(h) - 1))

\* The host of the domain a that domain_to_ascii gave for the decoded text
\* d: an IPv4 address when it ends in a number.
DomainHost(d, a) ==
  IF ~d.ok \/ ~a.ok THEN [err |-> MsgIdna, text |-> <<>>]
  ELSE IF a.v = <<>> THEN [err |-> MsgEmptyHost, text |-> <<>>]
  ELSE IF ends_in_a_number(a.v) THEN parse_ipv4addr(a.v)
  ELSE [err |-> "", text |-> a.v]

\* Host::parse of the host text h: [err, text], err "" when the host is
\* accepted and text its serialisation.
ParseHost(h) ==
  IF h # <<>> /\ h[1] = "[" THEN BracketHost(h)
  ELSE DomainHost(percent_decode(h), domain_to_ascii(percent_decode(h).v))

\* Host::parse_opaque, the host of a URL that is not special: [err, text].
ParseOpaqueHost(h) ==
  IF h = <<>> THEN [err |-> "", text |-> <<>>]
  ELSE IF h[1] = "[" THEN BracketHost(h)
  ELSE IF Range(h) \cap (ForbiddenHost \ {"%"}) # {} THEN [err |-> MsgDomainChar, text |-> <<>>]
  ELSE [err |-> "", text |-> h]

RECURSIVE HostEnd(_, _, _, _)
\* parse_host: the position after the host that starts at p; a ':' ends the
\* host unless it stands between square brackets.
HostEnd(r, p, inside, special) ==
  IF p > Len(r) THEN p
  ELSE IF r[p] = ":" /\ ~inside THEN p
  ELSE IF r[p] \in {"/", "?", "#"} \/ (special /\ r[p] = "\\") THEN p
  ELSE HostEnd(r, p + 1,
               IF r[p] = "[" THEN TRUE ELSE IF r[p] = "]" THEN FALSE ELSE inside,
               special)

\* The port of the digits at p..(e - 1): [ok, port, next].
PortOfDigits(r, p, e) ==
  IF \/ DecValue(SubSeq(r, p, e - 1), 0, 65535) = -1
     \/ e <= Len(r) /\ r[e] \notin {"/", "\\", "?", "#"}
  THEN [ok |-> FALSE, port |-> -1, next |-> e]
  ELSE [ok |-> TRUE,
        port |-> IF e = p THEN -1 ELSE DecValue(SubSeq(r, p, e - 1), 0, 65535),
        next |-> e]

\* parse_port from position p on (after the ':'): [ok, port, next]; port is
\* -1 when no digit is given.
parse_port(r, p) == PortOfDigits(r, p, SkipChars(r, p, DigitSet))

\* parse_userinfo's serialisation of the text u before the last '@'.
UserInfo(u) ==
  LET c == FindChars(u, 1, {":"})
  IN  PctEncode(SubSeq(u, 1, c - 1), USERINFO_SET)
        \o (IF c < Len(u) THEN <<":">> \o PctEncode(From(u, c + 1), USERINFO_SET) ELSE <<>>)
        \o (IF u # <<>> /\ u # <<":">> THEN <<"@">> ELSE <<>>)

\* A parse that failed with the message msg.
Bad(msg) ==
  [err |-> msg, scheme |-> <<>>, userinfo |-> <<>>, host |-> <<>>, port |-> -1, rest |-> <<>>]

\* The end of after_double_slash, with the userinfo ui, the host and the
\* port that were read; colon tells that a ':' follows the host.
AuthorityParts(scheme, r, ui, host, colon, port) ==
  IF host.err # "" THEN Bad(host.err)
  ELSE IF host.text = <<>> /\ colon THEN Bad(MsgEmptyHost)
  ELSE IF ~port.ok THEN Bad(MsgPort)
  ELSE IF host.text = <<>> /\ ui # <<>> THEN Bad(MsgEmptyHost)
  ELSE [err |-> "", scheme |-> scheme, userinfo |-> ui, host |-> host.text,
        port |-> IF port.port = DefaultPort(scheme) THEN -1 ELSE port.port,
        rest |-> From(r, port.next)]

\* after_double_slash with the last '@' of the authority at position at (0
\* when there is none): the host starts after it.
AuthorityAt(scheme, r, special, at) ==
  LET he == HostEnd(r, at + 1, FALSE, special)
      colon == he <= Len(r) /\ r[he] = ":"
  IN  IF /\ at = 1
         /\ Len(r) >= 2
         /\ r[2] \in {"/", "?", "#"} \cup (IF special THEN {"\\"} ELSE {})
      THEN Bad(MsgEmptyHost)
      ELSE AuthorityParts(scheme, r,
                          IF at > 1 THEN UserInfo(SubSeq(r, 1, at - 1)) ELSE <<>>,
                          IF special THEN ParseHost(SubSeq(r, at + 1, he - 1))
                          ELSE ParseOpaqueHost(SubSeq(r, at + 1, he - 1)),
                          colon,
                          IF colon THEN parse_port(r, he + 1)
                          ELSE [ok |-> TRUE, port |-> -1, next |-> he])

\* after_double_slash: userinfo, host and port of the text r that follows
\* the scheme and its slashes.
Authority(scheme, r, special) ==
  LET e == FindChars(r, 1, {"/", "?", "#"} \cup (IF special THEN {"\\"} ELSE {}))
  IN  AuthorityAt(scheme, r, special,
                  IF \E i \in 1..(e - 1) : r[i] = "@"
                  THEN CHOOSE i \in 1..(e - 1) :
                         r[i] = "@" /\ \A j \in (i + 1)..(e - 1) : r[j] # "@"
                  ELSE 0)

\* parse_file: a file URL fails only in the host that follows two slashes.
FileUrl(r) ==
  LET e == FindChars(r, 3, {"/", "\\", "?", "#"})
      h == SubSeq(r, 3, e - 1)
      drive == Len(h) = 2 /\ ToLower(h[1]) \in LowerSet /\ h[2] \in {":", "|"}
  IN  [err |-> IF /\ Len(r) >= 2
                  /\ r[1] \in {"/", "\\"}
                  /\ r[2] \in {"/", "\\"}
                  /\ h # <<>>
                  /\ ~drive
               THEN ParseHost(h).err
               ELSE "",
       scheme |-> <<"f", "i", "l", "e">>, userinfo |-> <<>>, host |-> <<>>, port |-> -1, rest |-> <<>>]

\* The parse of the text r that follows the scheme and its ':'.
AfterScheme(scheme, r) ==
  IF SchemeType(scheme) = "file" THEN FileUrl(r)
  ELSE IF SchemeType(scheme) = "other" /\ ~LitAt(r, 1, <<"/", "/">>)
  THEN [err |-> "", scheme |-> scheme, userinfo |-> <<>>, host |-> <<>>,
        port |-> -1, rest |-> r]
  ELSE Authority(scheme,
                 From(r, IF SchemeType(scheme) = "special"
                         THEN SkipChars(r, 1, {"/", "\\"})
                         ELSE 3),
                 SchemeType(scheme) = "special")

\* Url::parse of the trimmed text t.
ParseTrimmed(t) ==
  IF ~SchemeLike(t) THEN Bad(MsgRelative)
  ELSE AfterScheme(StrLower(SubSeq(t, 1, ColonPos(t) - 1)), From(t, ColonPos(t) + 1))

\* Url::parse(s): err is the message of the parse error, "" when the text
\* parses; then scheme, userinfo, host and port are serialised and rest is
\* what follows the authority.
UrlParts(s) == ParseTrimmed(Trim(s))

\* The error of the parsed URL u: that of the parse, or that of a scheme
\* HttpUrl does not allow.
ParsedError(u) ==
  IF u.err # "" THEN u.err
  ELSE IF u.scheme \notin {<<"h", "t", "t", "p">>, <<"h", "t", "t", "p", "s">>}
  THEN "URL scheme should be 'http' or 'https'"
  ELSE ""

\* The message of the validation error HttpUrl raises for s, "" when it
\* accepts s: the length limit, the empty input, the parse, the scheme.
UrlError(s) ==
  IF Len(s) > 2083 THEN "URL should have at most 2083 characters"
  ELSE IF s = <<>> THEN "Input should be a valid URL, input is empty"
  ELSE ParsedError(UrlParts(s))

\* HttpUrl accepts s.
IsHttpUrl(s) == UrlError(s) = ""

(***************************************************************************)
(* Path, query and fragment of a special URL                               *)
(***************************************************************************)
SingleDot == {<<".">>, <<"%", "2", "e">>}
DoubleDot == {<<".", ".">>, <<".", "%", "2", "e">>, <<"%", "2", "e", ".">>, <<"%", "2", "e", "%", "2", "e">>}

RECURSIVE PathFold(_, _, _)
\* parse_path over the segments raw from the i-th on, out the path so far: a
\* double-dot segment drops the last segment, a dot segment adds none, and a
\* dot segment at the end leaves an empty last segment.
PathFold(raw, i, out) ==
  IF i > Len(raw) THEN out
  ELSE LET seg == PctEncode(raw[i], PATH_SET)
           tail == IF i = Len(raw) THEN <<<<>>>> ELSE <<>>
       IN  IF StrLower(seg) \in DoubleDot
           THEN PathFold(raw, i + 1,
                         (IF out = <<>> THEN <<>> ELSE SubSeq(out, 1, Len(out) - 1)) \o tail)
           ELSE IF StrLower(seg) \in SingleDot
           THEN PathFold(raw, i + 1, out \o tail)
           ELSE PathFold(raw, i + 1, Append(out, seg))

\* Path, query and fragment of rest, the path ending before position q and
\* the query before position f.
PathQueryFragmentAt(rest, q, f) ==
  <<"/">>
    \o Join(PathFold(SplitOn(SubSeq(rest, IF rest[1] \in {"/", "\\"} THEN 2 ELSE 1, q - 1),
                             {"/", "\\"}),
                     1, <<>>),
            <<"/">>)
    \o (IF q < f THEN <<"?">> \o PctEncode(SubSeq(rest, q + 1, f - 1), SPECIAL_QUERY_SET)
        ELSE <<>>)
    \o (IF f <= Len(rest) THEN <<"#">> \o PctEncode(From(rest, f + 1), FRAGMENT_SET)
        ELSE <<>>)

\* The path, query and fragment of a special URL, serialised, for the text
\* rest that follows the authority.
PathQueryFragment(rest) ==
  IF rest = <<>> THEN <<"/">>
  ELSE PathQueryFragmentAt(rest, FindChars(rest, 1, {"?", "#"}), FindChars(rest, 1, {"#"}))

\* HttpUrl keeps the text as given (a str subclass): no normalisation.
HttpUrlText_verbatim(s) == s

\* The serialisation of the parsed URL u.
Serialise(u) ==
  u.scheme \o <<":", "/", "/">> \o u.userinfo \o u.host
    \o (IF u.port = -1 THEN <<>> ELSE <<":">> \o Dec(u.port))
    \o PathQueryFragment(u.rest)

\* str(HttpUrl(s)) for an accepted s: the serialisation of the parsed URL.
HttpUrlText(s) == Serialise(UrlParts(s))

\* HttpUrl(s), s accepted
HttpUrl(s) == UrlObj(HttpUrlText(s))


(***************************************************************************)
(* Text conversions                                                        *)
(***************************************************************************)
RECURSIVE Replace(_, _, _)
\* str.replace(old, new): left to right, non-overlapping; old is not empty.
Replace(s, old, new) ==
  IF s = <<>> THEN <<>>
  ELSE IF StartsWith(s, old) THEN new \o Replace(From(s, Len(old) + 1), old, new)
  ELSE <<Head(s)>> \o Replace(Tail(s), old, new)

RECURSIVE unescape(_)
\* html.unescape over texts whose only character reference is &amp;, with or
\* without its semicolon; the replacement text is not scanned again.
unescape(s) ==
  IF s = <<>> THEN <<>>
  ELSE IF StartsWith(s, <<"&", "a", "m", "p", ";">>) THEN <<"&">> \o unescape(From(s, 6))
  ELSE IF StartsWith(s, <<"&", "a", "m", "p">>) THEN <<"&">> \o unescape(From(s, 5))
  ELSE <<Head(s)>> \o unescape(Tail(s))

IsHex(c) == ToLower(c) \in Range(HexSeq)

HexVal(h) ==
  LET d(i) == IndexOf(ToLower(h[i]), HexSeq) - 1
  IN  4096 * d(1) + 256 * d(2) + 16 * d(3) + d(4)

\* chr(n) for the code point written as four hex digits; a code point outside
\* 0x20..0x7e is kept as a single symbolic character.
Chr(h) ==
  IF HexVal(h) >= 32 /\ HexVal(h) <= 126
  THEN AsciiSeq[HexVal(h) - 31]
  ELSE "U+" \o ToLower(h[1]) \o ToLower(h[2]) \o ToLower(h[3]) \o ToLower(h[4])

RECURSIVE unicode_escape(_)
\* s.encode('utf-8').decode('unicode_escape') over ASCII texts in which a
\* backslash is followed by '/', '\', 'u' or nothing: [ok, v], ok false when
\* the decoder raises UnicodeDecodeError.  An escape Python does not know
\* (such as \/) is kept, backslash included.
unicode_escape(s) ==
  IF s = <<>> THEN [ok |-> TRUE, v |-> <<>>]
  ELSE IF Head(s) # "\\" THEN
    LET r == unicode_escape(Tail(s))
    IN  [ok |-> r.ok, v |-> <<Head(s)>> \o r.v]
  ELSE IF Len(s) = 1 THEN [ok |-> FALSE, v |-> <<>>]
  ELSE IF s[2] = "\\" THEN
    LET r == unicode_escape(From(s, 3))
    IN  [ok |-> r.ok, v |-> <<"\\">> \o r.v]
  ELSE IF s[2] = "u" THEN
    IF Len(s) >= 6 /\ \A i \in 3..6 : IsHex(s[i])
    THEN LET r == unicode_escape(From(s, 7))
         IN  [ok |-> r.ok, v |-> <<Chr(SubSeq(s, 3, 6))>> \o r.v]
    ELSE [ok |-> FALSE, v |-> <<>>]
  ELSE
    LET r == unicode_escape(From(s, 3))
    IN  [ok |-> r.ok, v |-> <<"\\", s[2]>> \o r.v]

\* The decoder leaves the text as it is.
decode_candidate_raw(raw) == [ok |-> TRUE, v |-> raw]

\* candidate of main.py:142-143: [ok, v].
decode_candidate(raw) ==
  LET d == unicode_escape(raw)
  IN  [ok |-> d.ok, v |-> Replace(d.v, <<"\\", "/">>, <<"/">>)]

(***************************************************************************)
(* Pattern matching over the text of the fetched page                      *)
(***************************************************************************)
Quotes == {"\"", "'"}

\* First position at or after p where s has lit (letter case ignored), or
\* Len(s) + 1.
NextLitI(s, p, lit) ==
  IF \E i \in p..Len(s) : LitAtI(s, i, lit)
  THEN CHOOSE i \in p..Len(s) :
         LitAtI(s, i, lit) /\ \A j \in p..(i - 1) : ~LitAtI(s, j, lit)
  ELSE Len(s) + 1

\* ["']([^"']+)["'] at position p: the opening quote, a non-empty run without
\* quotes, the closing quote.
QuotedAt(s, p) ==
  /\ p <= Len(s)
  /\ s[p] \in Quotes
  /\ FindChars(s, p + 1, Quotes) > p + 1
  /\ FindChars(s, p + 1, Quotes) <= Len(s)

\* content=["']([^"']+)["'][^>]*> at position q
ContentAt(s, q) ==
  /\ LitAtI(s, q, <<"c", "o", "n", "t", "e", "n", "t", "=">>)
  /\ QuotedAt(s, q + 8)
  /\ FindChars(s, FindChars(s, q + 9, Quotes) + 1, {">"}) <= Len(s)

\* Positions where [^>]+ may stop when it starts at g: after at least one
\* character, before or at the first '>'.
GapEnds(s, g) == (g + 1)..FindChars(s, g, {">"})

\* ATTR=["']([^"']+)["'][^>]+content=... at position p; a is ATTR=
AttrAt(s, p, a) ==
  /\ LitAtI(s, p, a)
  /\ QuotedAt(s, p + Len(a))
  /\ \E q \in GapEnds(s, FindChars(s, p + Len(a) + 1, Quotes) + 1) : ContentAt(s, q)

\* The pattern <meta[^>]+ATTR=... matches at position m.
MetaAt(s, m, a) ==
  /\ LitAtI(s, m, <<"<", "m", "e", "t", "a">>)
  /\ \E p \in GapEnds(s, m + 5) : AttrAt(s, p, a)

Max(S) == CHOOSE x \in S : \A y \in S : y <= x

\* The match at m: the two groups and the position after the match.  Each
\* [^>]+ is greedy: it stops at the last position from which the rest of the
\* pattern matches.
MetaGroups(s, m, a) ==
  LET p == Max({x \in GapEnds(s, m + 5) : AttrAt(s, x, a)})
      k1 == p + Len(a) + 1
      e1 == FindChars(s, k1, Quotes)
      q == Max({x \in GapEnds(s, e1 + 1) : ContentAt(s, x)})
      e2 == FindChars(s, q + 9, Quotes)
  IN  [key |-> SubSeq(s, k1, e1 - 1),
       val |-> SubSeq(s, q + 9, e2 - 1),
       end |-> FindChars(s, e2 + 1, {">"}) + 1]

RECURSIVE meta_findall(_, _, _)
\* pattern.findall(html) from position pos on, for meta_pattern (a is
\* "property=") or name_pattern (a is "name="): the matches from left to right,
\* none overlapping another.
meta_findall(s, pos, a) ==
  LET m == NextLitI(s, pos, <<"<", "m", "e", "t", "a">>)
  IN  IF m > Len(s) THEN <<>>
      ELSE IF MetaAt(s, m, a)
      THEN <<MetaGroups(s, m, a)>> \o meta_findall(s, MetaGroups(s, m, a).end, a)
      ELSE meta_findall(s, m + 1, a)

\* tags[key] = value
DictSet(tags, key, value) ==
  [k \in (DOMAIN tags) \cup {key} |-> IF k = key THEN value ELSE tags[k]]

\* tags.get(key)
DictGet(tags, key) == IF key \in DOMAIN tags THEN tags[key] ELSE None

EmptyDict == [k \in {} |-> None]

RECURSIVE ScanMeta(_, _)
\* One of the two loops of extract_meta_tags, over the matches of one pattern.
ScanMeta(tags, found) ==
  IF found = <<>> THEN tags
  ELSE ScanMeta(DictSet(tags, StrLower(Head(found).key), Str(unescape(Head(found).val))),
                Tail(found))

\* main.py:88-98: property= tags first, then name= tags
extract_meta_tags(html) ==
  ScanMeta(ScanMeta(EmptyDict, meta_findall(html, 1, <<"p", "r", "o", "p", "e", "r", "t", "y", "=">>)),
           meta_findall(html, 1, <<"n", "a", "m", "e", "=">>))

\* The prefixes "(video_url|display_url)":"https?:\/\/ of the inline pattern.
InlineHeads ==
  {[key |-> k, head |-> <<"\"">> \o k \o <<"\"", ":", "\"">> \o h \o <<":", "\\", "/", "\\", "/">>, skip |-> 4 + Len(k)] :
     k \in {<<"v", "i", "d", "e", "o", "_", "u", "r", "l">>, <<"d", "i", "s", "p", "l", "a", "y", "_", "u", "r", "l">>}, h \in {<<"h", "t", "t", "p">>, <<"h", "t", "t", "p", "s">>}}

\* The pattern of main.py:140 matches at position p with head hd: the head,
\* then [^"]+ and the closing quote.
InlineAt(s, p, hd) ==
  /\ LitAt(s, p, hd.head)
  /\ FindChars(s, p + Len(hd.head), {"\""}) > p + Len(hd.head)
  /\ FindChars(s, p + Len(hd.head), {"\""}) <= Len(s)

\* The match at p: the key, the value, and the position after the match.
InlineGroups(s, p) ==
  LET hd == CHOOSE x \in InlineHeads : InlineAt(s, p, x)
      e == FindChars(s, p + Len(hd.head), {"\""})
  IN  [key |-> hd.key, val |-> SubSeq(s, p + hd.skip, e - 1), end |-> e + 1]

RECURSIVE finditer_from(_, _)
\* The matches of the inline pattern from position pos on.
finditer_from(s, pos) ==
  LET p == FindChars(s, pos, {"\""})
  IN  IF p > Len(s) THEN <<>>
      ELSE IF \E hd \in InlineHeads : InlineAt(s, p, hd)
      THEN <<InlineGroups(s, p)>> \o finditer_from(s, InlineGroups(s, p).end)
      ELSE finditer_from(s, p + 1)

\* re.finditer(...): the matches in document order.
finditer(html) == finditer_from(html, 1)

(***************************************************************************)
(* MediaItem                                                               *)
(***************************************************************************)
\* pydantic accepts the field value: a str that parses as HttpUrl.
UrlFieldOK(x) == x.cls = "str" /\ IsHttpUrl(x.v)

\* MediaItem(type=..., url=..., thumbnail=...) raises ValidationError.
MediaItemRaises(url, thumbnail) ==
  \/ ~UrlFieldOK(url)
  \/ thumbnail # None /\ ~UrlFieldOK(thumbnail)

\* MediaItem(type=..., url=..., thumbnail=...), when it does not raise.
MediaItem(type, url, thumbnail) ==
  [type |-> type,
   url |-> HttpUrl(url.v),
   thumbnail |-> IF thumbnail = None THEN None ELSE HttpUrl(thumbnail.v)]

\* all(x.url != candidate for x in media): x.url is a Url object and candidate
\* a str, so the comparison is between values of different classes.
NotInMedia(media, candidate) ==
  \A i \in 1..Len(media) : media[i].url # candidate

(***************************************************************************)
(* Bounds and inputs                                                       *)
(***************************************************************************)
\* Longest page, in fragments.
MaxFrags == 3
\* Longest text after the post identifier of a request URL.
MaxTrail == 2

SeqsUpTo(S, n) == UNION {[1..k -> S] : k \in 0..n}

\* The text of a meta element and of an inline JSON pair.
Meta(attr, key, content) ==
  Concat(<<<<"<", "m", "e", "t", "a", " ">>, attr, <<"=", "\"">>, key, <<"\"", " ", "c", "o", "n", "t", "e", "n", "t", "=", "\"">>, content, <<"\"", ">">>>>)
Json(key, value) == Concat(<<<<"\"">>, key, <<"\"", ":", "\"">>, value, <<"\"">>>>)

RECURSIVE Page(_)
\* The page made of the given fragments, a blank between two of them.
Page(frags) ==
  IF frags = <<>> THEN <<>>
  ELSE IF Len(frags) = 1 THEN Head(frags)
  ELSE Head(frags) \o <<" ">> \o Page(Tail(frags))

Fragments ==
  {Meta(<<"p", "r", "o", "p", "e", "r", "t", "y">>, <<"o", "g", ":", "v", "i", "d", "e", "o">>, <<"h", "t", "t", "p", "s", ":", "/", "/", "x", "/", "v", "i", "d", "e", "o", ".", "m", "p", "4">>),
   Meta(<<"p", "r", "o", "p", "e", "r", "t", "y">>, <<"o", "g", ":", "i", "m", "a", "g", "e">>, <<"h", "t", "t", "p", "s", ":", "/", "/", "x", "/", "t", "h", "u", "m", "b", ".", "j", "p", "g">>),
   Meta(<<"n", "a", "m", "e">>, <<"t", "w", "i", "t", "t", "e", "r", ":", "p", "l", "a", "y", "e", "r", ":", "s", "t", "r", "e", "a", "m">>, <<"h", "t", "t", "p", "s", ":", "/", "/", "x", "/", "t", "w", ".", "m", "p", "4">>),
   Meta(<<"n", "a", "m", "e">>, <<"t", "w", "i", "t", "t", "e", "r", ":", "i", "m", "a", "g", "e">>, <<"h", "t", "t", "p", "s", ":", "/", "/", "x", "/", "t", "w", ".", "j", "p", "g">>),
   Meta(<<"p", "r", "o", "p", "e", "r", "t", "y">>, <<"O", "G", ":", "I", "m", "a", "g", "e">>, <<"H", "T", "T", "P", "S", ":", "/", "/", "X", "/", "p", "i", "c", ".", "j", "p", "g", "?", "a", "=", "1", "&", "a", "m", "p", ";", "b", "=", "2">>),
   Meta(<<"p", "r", "o", "p", "e", "r", "t", "y">>, <<"o", "g", ":", "v", "i", "d", "e", "o">>, <<"/", "r", "e", "l", ".", "m", "p", "4">>),
   Meta(<<"n", "a", "m", "e">>, <<"o", "g", ":", "v", "i", "d", "e", "o">>, <<"h", "t", "t", "p", "s", ":", "/", "/", "x", "/", "l", "a", "t", "e", ".", "m", "p", "4">>),
   Json(<<"v", "i", "d", "e", "o", "_", "u", "r", "l">>, <<"h", "t", "t", "p", "s", ":", "\\", "/", "\\", "/", "x", "\\", "/", "v", "2", ".", "m", "p", "4">>),
   Json(<<"d", "i", "s", "p", "l", "a", "y", "_", "u", "r", "l">>, <<"h", "t", "t", "p", "s", ":", "\\", "/", "\\", "/", "x", "\\", "/", "a", ".", "j", "p", "g">>),
   Json(<<"d", "i", "s", "p", "l", "a", "y", "_", "u", "r", "l">>, <<"h", "t", "t", "p", "s", ":", "\\", "/", "\\", "/", "x", "\\", "/", "c", "\\", "u", "0", "0", "2", "6", "d">>),
   Json(<<"v", "i", "d", "e", "o", "_", "u", "r", "l">>, <<"h", "t", "t", "p", "s", ":", "\\", "/", "\\", "/", "x", "\\", "/", "e", "\\", "u", "0", "0">>),
   Json(<<"d", "i", "s", "p", "l", "a", "y", "_", "u", "r", "l">>, <<"h", "t", "t", "p", "s", ":", "\\", "/", "\\", "/", "2", "5", "6", ".", "1", ".", "1", ".", "1", "\\", "/", "x">>),
   Meta(<<"p", "r", "o", "p", "e", "r", "t", "y">>, <<"o", "g", ":", "i", "m", "a", "g", "e", "\"", "x">>, <<"h", "t", "t", "p", "s", ":", "/", "/", "x", "/", "q", ".", "j", "p", "g">>),
   Json(<<"d", "i", "s", "p", "l", "a", "y", "_", "u", "r", "l">>, <<"h", "t", "t", "p", "s", ":", "/", "/", "1", "/", "a", "\"", "b", ".", "j", "p", "g">>)}

\* Pages the upstream may answer with.
Pages == {Page(fs) : fs \in SeqsUpTo(Fragments, MaxFrags)}

\* Upstream status codes.
Statuses == {200, 201, 204, 404}

\* Request bodies {url: ...} of the pipeline runs.
Bodies ==
  {<<"h", "t", "t", "p", "s", ":", "/", "/", "w", "w", "w", ".", "i", "n", "s", "t", "a", "g", "r", "a", "m", ".", "c", "o", "m", "/", "p", "/", "a", "b", "c", "/">>,
   <<"h", "t", "t", "p", "s", ":", "/", "/", "a", "{", "b", "/", "p", "/", "a", "b", "c">>,
   <<"h", "t", "t", "p", "s", ":", "/", "/", "1", "/", "p", "/", "a", "b", "c">>,
   <<"h", "t", "t", "p", "s", ":", "/", "/", "2", "5", "6", ".", "1", ".", "1", ".", "1", "/", "p">>,
   <<"f", "t", "p", ":", "/", "/", "i", "n", "s", "t", "a", "g", "r", "a", "m", ".", "c", "o", "m", "/", "p", "/", "a", "b", "c">>,
   <<"h", "t", "t", "p", "s", ":", "/", "/", "e", "x", "a", "m", "p", "l", "e", ".", "c", "o", "m", "/", "p", "/", "a", "b", "c">>,
   <<"h", "t", "t", "p", "s", ":", "/", "/", "i", "n", "s", "t", "a", "g", "r", "a", "m", ".", "c", "o", "m", "/", "n", "o", "t", "p", "/", "a", "b", "c">>,
   <<"i", "n", "s", "t", "a", "g", "r", "a", "m", ".", "c", "o", "m", "/", "p", "/", "a", "b", "c">>,
   <<>>}

Schemes == {<<"h", "t", "t", "p", "s", ":", "/", "/">>, <<"h", "t", "t", "p", ":", "/", "/">>, <<"H", "T", "T", "P", "S", ":", "/", "/">>, <<"h", "t", "t", "p", "s", ":", "\\", "\\">>, <<>>}
Hosts ==
  {<<"w", "w", "w", ".", "i", "n", "s", "t", "a", "g", "r", "a", "m", ".", "c", "o", "m">>, <<"i", "n", "s", "t", "a", "g", "r", "a", "m", ".", "c", "o", "m">>, <<"W", "W", "W", ".", "I", "n", "s", "t", "a", "g", "r", "a", "m", ".", "C", "O", "M">>, <<"e", "x", "a", "m", "p", "l", "e", ".", "c", "o", "m">>,
   <<"i", "n", "s", "t", "a", "g", "r", "a", "m", ".", "c", "o", "m", ":", "4", "4", "3">>, <<"0", "x", "7", "f", ".", "1">>}
Keywords == {<<"/", "p", "/">>, <<"/", "r", "e", "e", "l", "/">>, <<"/", "r", "e", "e", "l", "s", "/">>, <<"/", "t", "v", "/">>, <<"/", "P", "/">>, <<"/", "R", "E", "E", "L", "/">>, <<"/", "n", "o", "t", "p", "/">>, <<"/">>}
Ids == {<<"a", "b", "c">>, <<"A", "_", "b", "-", "9">>, <<>>}
TrailChars == {"/", "?", "x", "."}

\* Trailing texts whose double-dot segment takes the identifier off the path.
ClimbTrails == {<<"/", ".", ".">>, <<"/", "%", "2", "E", ".">>, <<"\\", ".", ".">>}
Trails == SeqsUpTo(TrailChars, MaxTrail) \cup ClimbTrails \cup {<<"/", "x", "/", ".", ".">>}

\* Request bodies of the validation runs.
UrlBodies ==
  {Concat(<<sch, host, kw, id, trail>>) :
     sch \in Schemes, host \in Hosts, kw \in Keywords, id \in Ids, trail \in Trails}
  \cup {<<>>}

\* Pages of the validation runs.
FewPages ==
  {<<>>,
   Page(<<Meta(<<"p", "r", "o", "p", "e", "r", "t", "y">>, <<"o", "g", ":", "v", "i", "d", "e", "o">>, <<"h", "t", "t", "p", "s", ":", "/", "/", "x", "/", "v", "i", "d", "e", "o", ".", "m", "p", "4">>),
          Meta(<<"p", "r", "o", "p", "e", "r", "t", "y">>, <<"o", "g", ":", "i", "m", "a", "g", "e">>, <<"h", "t", "t", "p", "s", ":", "/", "/", "x", "/", "t", "h", "u", "m", "b", ".", "j", "p", "g">>),
          Json(<<"v", "i", "d", "e", "o", "_", "u", "r", "l">>, <<"h", "t", "t", "p", "s", ":", "\\", "/", "\\", "/", "x", "\\", "/", "v", "2", ".", "m", "p", "4">>),
          Json(<<"d", "i", "s", "p", "l", "a", "y", "_", "u", "r", "l">>, <<"h", "t", "t", "p", "s", ":", "\\", "/", "\\", "/", "x", "\\", "/", "a", ".", "j", "p", "g">>)>>)}

(***************************************************************************)
(* State of one request.  The handler keeps nothing between requests, so   *)
(* a behaviour is the life of a single request.                            *)
(***************************************************************************)
VARIABLES
  pc,        \* "idle", "validate", "fetch", "status", "primary", "inline", "done"
  body,      \* the url field of the request body, as sent
  payload,   \* payload.url: the parsed HttpUrl, or None
  url,       \* the local url of instagram_inspect
  fetches,   \* requests.get calls made for the current request
  resp,      \* the upstream response
  html,      \* resp.text
  tags,      \* extract_meta_tags(html)
  og_video,
  og_image,
  media,
  pending,   \* the matches re.finditer has not yet yielded
  status,    \* status code of the response to the caller, 0 while there is none
  detail     \* message of the error response, "" when it has none

vars ==
  <<pc, body, payload, url, fetches, resp, html, tags, og_video, og_image,
    media, pending, status, detail>>

NoResp == [status_code |-> 0, text |-> <<>>]

Init ==
  /\ pc = "idle"
  /\ body = <<>>
  /\ payload = None
  /\ url = <<>>
  /\ fetches = 0
  /\ resp = NoResp
  /\ html = <<>>
  /\ tags = EmptyDict
  /\ og_video = None
  /\ og_image = None
  /\ media = <<>>
  /\ pending = <<>>
  /\ status = 0
  /\ detail = ""

\* A response with this status code carries a body.
BodyAllowed(code) == ~(code < 200 \/ code \in {204, 205, 304})

\* raise HTTPException(status_code=code, detail=msg): the request ends with an
\* error response, which carries the detail when the status allows a body.
Fail(code, msg) ==
  /\ pc' = "done"
  /\ status' = code
  /\ detail' = IF BodyAllowed(code) THEN msg ELSE ""

\* An exception no handler catches: the server answers 500.
Crash == Fail(500, "Internal Server Error")

\* FastAPI parses the body into InspectRequest (main.py:21-22, 102); a url
\* that is not an HttpUrl is answered 422 before the handler runs.
Request(bodies) ==
  /\ pc = "idle"
  /\ \E b \in bodies :
       /\ body' = b
       /\ IF IsHttpUrl(b)
          THEN /\ payload' = HttpUrl(b)
               /\ pc' = "validate"
               /\ status' = 0
               /\ detail' = ""
          ELSE /\ payload' = None
               /\ Fail(422, UrlError(b))
  /\ url' = <<>>
  /\ fetches' = 0
  /\ resp' = NoResp
  /\ html' = <<>>
  /\ tags' = EmptyDict
  /\ og_video' = None
  /\ og_image' = None
  /\ media' = <<>>
  /\ pending' = <<>>

\* main.py:103-106
Validate ==
  /\ pc = "validate"
  /\ url' = payload.v
  /\ IF ~INSTAGRAM_URL_RE(url')
     THEN Fail(400, "Please provide a valid Instagram post/reel URL.")
     ELSE pc' = "fetch" /\ UNCHANGED <<status, detail>>
  /\ UNCHANGED <<body, payload, fetches, resp, html, tags, og_video, og_image,
                 media, pending>>

\* A failed fetch is tried once more before giving up.
FetchFailsRetry ==
  /\ pc = "fetch"
  /\ fetches' = fetches + 1
  /\ IF fetches' < 2
     THEN UNCHANGED <<pc, status, detail>>
     ELSE Fail(502, "Failed to fetch the Instagram page.")
  /\ UNCHANGED <<body, payload, url, resp, html, tags, og_video, og_image,
                 media, pending>>

\* main.py:108-115, requests.get raises RequestException
FetchFails ==
  /\ pc = "fetch"
  /\ fetches' = fetches + 1
  /\ Fail(502, "Failed to fetch the Instagram page.")
  /\ UNCHANGED <<body, payload, url, resp, html, tags, og_video, og_image,
                 media, pending>>

\* main.py:108-113, requests.get returns a response
FetchResponds(pages) ==
  /\ pc = "fetch"
  /\ fetches' = fetches + 1
  /\ \E st \in Statuses, page \in pages :
       resp' = [status_code |-> st, text |-> page]
  /\ pc' = "status"
  /\ UNCHANGED <<body, payload, url, html, tags, og_video, og_image, media,
                 pending, status, detail>>

\* main.py:117, the negation of the condition
UpstreamOK(code) == code = 200

\* main.py:117-127
CheckStatus ==
  /\ pc = "status"
  /\ IF ~UpstreamOK(resp.status_code)
     THEN /\ Fail(resp.status_code, "Instagram responded with an error.")
          /\ UNCHANGED <<html, tags, og_video, og_image, media>>
     ELSE /\ html' = resp.text
          /\ tags' = extract_meta_tags(html')
          /\ media' = <<>>
          /\ og_video' = PyOr(DictGet(tags', <<"o", "g", ":", "v", "i", "d", "e", "o">>),
                              DictGet(tags', <<"t", "w", "i", "t", "t", "e", "r", ":", "p", "l", "a", "y", "e", "r", ":", "s", "t", "r", "e", "a", "m">>))
          /\ og_image' = PyOr(DictGet(tags', <<"o", "g", ":", "i", "m", "a", "g", "e">>),
                              DictGet(tags', <<"t", "w", "i", "t", "t", "e", "r", ":", "i", "m", "a", "g", "e">>))
          /\ pc' = "primary"
          /\ UNCHANGED <<status, detail>>
  /\ UNCHANGED <<body, payload, url, fetches, resp, pending>>

\* An image item is added even when a video item was.
primary_both(video, image) ==
  IF Truthy(video)
  THEN IF MediaItemRaises(video, image) THEN [ok |-> FALSE, media |-> <<>>]
       ELSE [ok |-> TRUE,
             media |-> <<MediaItem("video", video, image)>> \o
                       (IF Truthy(image)
                        THEN <<MediaItem("image", image, image)>> ELSE <<>>)]
  ELSE IF Truthy(image)
  THEN IF MediaItemRaises(image, image) THEN [ok |-> FALSE, media |-> <<>>]
       ELSE [ok |-> TRUE, media |-> <<MediaItem("image", image, image)>>]
  ELSE [ok |-> TRUE, media |-> <<>>]

\* main.py:129-136: the list after the two ifs, ok false when MediaItem raises
primary(video, image) ==
  IF Truthy(video)
  THEN IF MediaItemRaises(video, image) THEN [ok |-> FALSE, media |-> <<>>]
       ELSE [ok |-> TRUE, media |-> <<MediaItem("video", video, image)>>]
  ELSE IF Truthy(image)
  THEN IF MediaItemRaises(image, image) THEN [ok |-> FALSE, media |-> <<>>]
       ELSE [ok |-> TRUE, media |-> <<MediaItem("image", image, image)>>]
  ELSE [ok |-> TRUE, media |-> <<>>]

\* main.py:129-140: the primary item, then the loop starts
Primary ==
  /\ pc = "primary"
  /\ IF ~primary(og_video, og_image).ok
     THEN Crash /\ UNCHANGED <<media, pending>>
     ELSE /\ media' = primary(og_video, og_image).media
          /\ pending' = finditer(html)
          /\ pc' = "inline"
          /\ UNCHANGED <<status, detail>>
  /\ UNCHANGED <<body, payload, url, fetches, resp, html, tags, og_video,
                 og_image>>

\* The thumbnail MediaItem is given for a match of that kind.
inline_thumb(kind, candidate, image) ==
  IF kind = <<"v", "i", "d", "e", "o", "_", "u", "r", "l">> THEN image ELSE candidate

\* The type MediaItem is given for a match of that kind.
inline_type(kind) == IF kind = <<"v", "i", "d", "e", "o", "_", "u", "r", "l">> THEN "video" ELSE "image"

\* main.py:140-149, one iteration of the loop
Inline ==
  /\ pc = "inline"
  /\ pending # <<>>
  /\ LET m == Head(pending)
         kind == m.key
         d == decode_candidate(m.val)
         candidate == Str(d.v)
         thumb == inline_thumb(kind, candidate, og_image)
     IN  IF ~d.ok
         THEN Crash /\ UNCHANGED <<media, pending>>
         ELSE IF ~NotInMedia(media, candidate)
         THEN /\ pending' = Tail(pending)
              /\ UNCHANGED <<pc, media, status, detail>>
         ELSE IF MediaItemRaises(candidate, thumb)
         THEN Crash /\ UNCHANGED <<media, pending>>
         ELSE /\ media' = Append(media, MediaItem(inline_type(kind), candidate, thumb))
              /\ pending' = Tail(pending)
              /\ UNCHANGED <<pc, status, detail>>
  /\ UNCHANGED <<body, payload, url, fetches, resp, html, tags, og_video,
                 og_image>>

\* main.py:151-155
Finish ==
  /\ pc = "inline"
  /\ pending = <<>>
  /\ IF media = <<>>
     THEN Fail(422, "Could not extract media from this URL. It may be private or blocked.")
     ELSE /\ pc' = "done"
          /\ status' = 200
          /\ detail' = ""
  /\ UNCHANGED <<body, payload, url, fetches, resp, html, tags, og_video,
                 og_image, media, pending>>

Next ==
  \/ Request(Bodies)
  \/ Validate
  \/ FetchFails
  \/ FetchResponds(Pages)
  \/ CheckStatus
  \/ Primary
  \/ Inline
  \/ Finish

Spec == Init /\ [][Next]_vars

NextUrl ==
  \/ Request(UrlBodies)
  \/ Validate
  \/ FetchFails
  \/ FetchResponds(FewPages)
  \/ CheckStatus
  \/ Primary
  \/ Inline
  \/ Finish

SpecUrl == Init /\ [][NextUrl]_vars

(***************************************************************************)
(* Properties                                                              *)
(***************************************************************************)
\* The request was rejected before any fetch.
Rejected == pc = "done" /\ fetches = 0

\* The request has passed request parsing and URL validation.
Decided == pc \notin {"idle", "validate"}

MsgInvalid == "Please provide a valid Instagram post/reel URL."
MsgUpstream == "Instagram responded with an error."
MsgNoMedia == "Could not extract media from this URL. It may be private or blocked."

\* primaryVideo and primaryImage, read off the tag mapping.
PrimaryVideo ==
  IF <<"o", "g", ":", "v", "i", "d", "e", "o">> \in DOMAIN tags THEN tags[<<"o", "g", ":", "v", "i", "d", "e", "o">>]
  ELSE IF <<"t", "w", "i", "t", "t", "e", "r", ":", "p", "l", "a", "y", "e", "r", ":", "s", "t", "r", "e", "a", "m">> \in DOMAIN tags THEN tags[<<"t", "w", "i", "t", "t", "e", "r", ":", "p", "l", "a", "y", "e", "r", ":", "s", "t", "r", "e", "a", "m">>]
  ELSE None
PrimaryImage ==
  IF <<"o", "g", ":", "i", "m", "a", "g", "e">> \in DOMAIN tags THEN tags[<<"o", "g", ":", "i", "m", "a", "g", "e">>]
  ELSE IF <<"t", "w", "i", "t", "t", "e", "r", ":", "i", "m", "a", "g", "e">> \in DOMAIN tags THEN tags[<<"t", "w", "i", "t", "t", "e", "r", ":", "i", "m", "a", "g", "e">>]
  ELSE None

\* A list has been assembled, in part or whole.
Assembling == pc = "inline" \/ (pc = "done" /\ status = 200)

\* C1: a request whose body holds an absolute URL ends with 200 and a
\* non-empty list, 400, 502, 422, or the upstream's non-2xx status, and with
\* nothing else.
C1_OutcomesClosed ==
  (pc = "done" /\ payload # None) =>
    \/ status = 200 /\ media # <<>>
    \/ status \in {400, 502, 422}
    \/ /\ resp.status_code # 0
       /\ status = resp.status_code
       /\ ~(resp.status_code >= 200 /\ resp.status_code < 300)

\* C2: a url that does not have the Instagram post/reel shape is answered 400
\* with the invalid-URL message, and nothing is fetched.
C2_UnshapedIs400 ==
  (pc = "done" /\ ~INSTAGRAM_URL_RE(StrLower(body))) =>
    status = 400 /\ detail = MsgInvalid /\ fetches = 0

\* https://[www.]instagram.com/(p|reel|reels|tv)/<id>[/]<trailing text>
ClaimShapes ==
  {Concat(<<<<"h", "t", "t", "p", "s", ":", "/", "/">>, w, <<"i", "n", "s", "t", "a", "g", "r", "a", "m", ".", "c", "o", "m", "/">>, kw, <<"/">>, id, sl, trail>>) :
     w \in {<<"w", "w", "w", ".">>, <<>>}, kw \in {<<"p">>, <<"r", "e", "e", "l">>, <<"r", "e", "e", "l", "s">>, <<"t", "v">>},
     id \in Ids \ {<<>>}, sl \in {<<"/">>, <<>>}, trail \in Trails}

\* The urls of the claimed shape whose trailing text is a double-dot segment
\* right after the identifier.
ClimbShapes ==
  {Concat(<<<<"h", "t", "t", "p", "s", ":", "/", "/">>, w, <<"i", "n", "s", "t", "a", "g", "r", "a", "m", ".", "c", "o", "m", "/">>, kw, <<"/">>, id, trail>>) :
     w \in {<<"w", "w", "w", ".">>, <<>>}, kw \in {<<"p">>, <<"r", "e", "e", "l">>, <<"r", "e", "e", "l", "s">>, <<"t", "v">>},
     id \in Ids \ {<<>>}, trail \in ClimbTrails}

\* Position where the path of the url s starts: the first '/' or '\' after
\* the slashes of the scheme (where the query or fragment starts when there is
\* no path), or Len(s) + 1.
PathStart(s) ==
  IF ColonPos(s) = 0 THEN Len(s) + 1
  ELSE FindChars(s, SkipChars(s, ColonPos(s) + 1, {"/", "\\"}), {"/", "\\", "?", "#"})

\* No segment of the path of the url s is a double dot, written out or with
\* percent escapes.
NoDoubleDot(s) ==
  \A seg \in Range(SplitOn(SubSeq(s, PathStart(s), FindChars(s, PathStart(s), {"?", "#"}) - 1),
                           {"/", "\\"})) :
    StrLower(seg) \notin DoubleDot

AcceptedLower ==
  {StrLower(u) : u \in {x \in UrlBodies : IsHttpUrl(x) /\ INSTAGRAM_URL_RE(HttpUrlText(x))}}

\* C4 as stated: a url that differs only in letter case from a url that
\* validation accepts is not rejected with 400.
C4_AnyCaseAccepted ==
  (pc = "done" /\ StrLower(body) \in AcceptedLower) => status # 400

\* s with its scheme and host in lower case.
FoldOrigin(s) == StrLower(SubSeq(s, 1, PathStart(s) - 1)) \o From(s, PathStart(s))

\* Absolute urls whose path keyword is written in upper case.
UpperKeywordBodies ==
  {Concat(<<sch, host, kw, id, trail>>) :
     sch \in Schemes \ {<<>>}, host \in Hosts, kw \in {<<"/", "P", "/">>, <<"/", "R", "E", "E", "L", "/">>},
     id \in Ids, trail \in Trails}

\* C4, amended: validation ignores letter case in the scheme and the host only.
\* A url whose scheme and host, put in lower case, give a url that validation
\* accepts is accepted; a url with an upper-case path keyword is answered 400.
C4_CaseOfOriginOnly ==
  /\ (Decided /\ IsHttpUrl(FoldOrigin(body))
               /\ INSTAGRAM_URL_RE(HttpUrlText(FoldOrigin(body))))
       => ~Rejected
  /\ (pc = "done" /\ body \in UpperKeywordBodies)
       => status = 400 /\ detail = MsgInvalid /\ fetches = 0

C4_Witness ==
  /\ pc = "fetch"
  /\ body = <<"H", "T", "T", "P", "S", ":", "/", "/", "W", "W", "W", ".", "I", "n", "s", "t", "a", "g", "r", "a", "m", ".", "C", "O", "M", "/", "r", "e", "e", "l", "/", "a", "b", "c", "/">>

\* C5: once the upstream has answered, a 2xx status sends the body on to
\* extraction, and any other status ends the request with that status and the
\* generic message, nothing extracted.
C5_StatusDecidesPath ==
  (resp.status_code # 0 /\ pc # "status") =>
    IF resp.status_code >= 200 /\ resp.status_code < 300
    THEN html = resp.text /\ (pc = "done" => status # resp.status_code \/ status = 200)
    ELSE /\ pc = "done"
         /\ status = resp.status_code
         /\ detail = MsgUpstream
         /\ tags = EmptyDict /\ media = <<>>

\* C6: a request makes at most one fetch, exactly one once its url is
\* validated and the fetch step is over, and a fetch that fails in transport
\* ends the request with 502, nothing extracted.
C6_SingleFetch ==
  /\ fetches \in {0, 1}
  /\ pc \in {"status", "primary", "inline"} => fetches = 1
  /\ (pc = "done" /\ payload # None /\ status # 400) => fetches = 1
  /\ (pc = "done" /\ fetches >= 1 /\ resp = NoResp) =>
       /\ status = 502
       /\ html = <<>> /\ tags = EmptyDict /\ media = <<>>

C6_Witness ==
  /\ pc = "done"
  /\ status = 502
  /\ fetches = 1
  /\ resp = NoResp

\* The thumbnail field made from primaryImage.
ThumbOf(image) == IF image = None THEN None ELSE HttpUrl(image.v)

\* Matches of the inline pattern already taken by the loop.
Taken ==
  LET found == finditer(html)
  IN  SubSeq(found, 1, Len(found) - Len(pending))

\* C7: with primaryVideo present the list starts with the video item made of
\* primaryVideo and primaryImage and holds no image item made of primaryImage;
\* with only primaryImage present it starts with the image item whose url and
\* thumbnail are primaryImage; a page with nothing but an og:image tag gives
\* exactly that one item.
C7_PrimaryItem ==
  Assembling =>
    /\ PrimaryVideo # None =>
         /\ media # <<>>
         /\ media[1] = [type |-> "video", url |-> HttpUrl(PrimaryVideo.v),
                        thumbnail |-> ThumbOf(PrimaryImage)]
         /\ Len(media) <= 1 + Len(Taken)
    /\ (PrimaryVideo = None /\ PrimaryImage # None) =>
         /\ media # <<>>
         /\ media[1] = [type |-> "image", url |-> HttpUrl(PrimaryImage.v),
                        thumbnail |-> HttpUrl(PrimaryImage.v)]
         /\ Len(media) <= 1 + Len(Taken)
    /\ html = Meta(<<"p", "r", "o", "p", "e", "r", "t", "y">>, <<"o", "g", ":", "i", "m", "a", "g", "e">>, <<"h", "t", "t", "p", "s", ":", "/", "/", "x", "/", "t", "h", "u", "m", "b", ".", "j", "p", "g">>) =>
         media = <<[type |-> "image", url |-> UrlObj(<<"h", "t", "t", "p", "s", ":", "/", "/", "x", "/", "t", "h", "u", "m", "b", ".", "j", "p", "g">>),
                    thumbnail |-> UrlObj(<<"h", "t", "t", "p", "s", ":", "/", "/", "x", "/", "t", "h", "u", "m", "b", ".", "j", "p", "g">>)]>>

C7_Witness ==
  /\ pc = "done"
  /\ status = 200
  /\ PrimaryVideo = Str(<<"h", "t", "t", "p", "s", ":", "/", "/", "x", "/", "v", "i", "d", "e", "o", ".", "m", "p", "4">>)
  /\ PrimaryImage = Str(<<"h", "t", "t", "p", "s", ":", "/", "/", "x", "/", "t", "h", "u", "m", "b", ".", "j", "p", "g">>)
  /\ media[1].type = "video"
  /\ media[1].thumbnail = UrlObj(<<"h", "t", "t", "p", "s", ":", "/", "/", "x", "/", "t", "h", "u", "m", "b", ".", "j", "p", "g">>)

\* C8: no two items of the list have the same url.
C8_NoDuplicateUrl ==
  \A i, j \in 1..Len(media) : i # j => media[i].url # media[j].url

RECURSIVE FirstByUrl(_, _)
\* The items of a list whose url no earlier item has.
FirstByUrl(items, seen) ==
  IF items = <<>> THEN <<>>
  ELSE IF Head(items).url \in seen THEN FirstByUrl(Tail(items), seen)
  ELSE <<Head(items)>> \o FirstByUrl(Tail(items), seen \cup {Head(items).url})

\* The item the loop makes of a match.
ItemOf(m) ==
  LET u == HttpUrl(decode_candidate(m.val).v)
  IN  IF m.key = <<"v", "i", "d", "e", "o", "_", "u", "r", "l">>
      THEN [type |-> "video", url |-> u, thumbnail |-> ThumbOf(PrimaryImage)]
      ELSE [type |-> "image", url |-> u, thumbnail |-> u]

\* The primary item, if there is one.
PrimaryPart == IF PrimaryVideo # None \/ PrimaryImage # None THEN <<media[1]>> ELSE <<>>

\* C9: after the primary item come the inline matches in document order, each
\* url not yet in the list as one item: a video_url match as a video item with
\* thumbnail primaryImage, a display_url match as an image item that is its
\* own thumbnail, the url being the value with its backslash escapes removed.
\* A page with an og:video tag and an inline video_url "https:\/\/x\/v2.mp4"
\* gives the og:video item and then the video item of https://x/v2.mp4.
C9_InlineItems ==
  Assembling =>
    /\ FirstByUrl(media, {}) =
         FirstByUrl(PrimaryPart \o [i \in 1..Len(Taken) |-> ItemOf(Taken[i])], {})
    /\ (/\ pc = "done"
        /\ html = Page(<<Meta(<<"p", "r", "o", "p", "e", "r", "t", "y">>, <<"o", "g", ":", "v", "i", "d", "e", "o">>, <<"h", "t", "t", "p", "s", ":", "/", "/", "x", "/", "v", "i", "d", "e", "o", ".", "m", "p", "4">>),
                         Json(<<"v", "i", "d", "e", "o", "_", "u", "r", "l">>, <<"h", "t", "t", "p", "s", ":", "\\", "/", "\\", "/", "x", "\\", "/", "v", "2", ".", "m", "p", "4">>)>>)) =>
         media = <<[type |-> "video", url |-> UrlObj(<<"h", "t", "t", "p", "s", ":", "/", "/", "x", "/", "v", "i", "d", "e", "o", ".", "m", "p", "4">>),
                    thumbnail |-> None],
                   [type |-> "video", url |-> UrlObj(<<"h", "t", "t", "p", "s", ":", "/", "/", "x", "/", "v", "2", ".", "m", "p", "4">>),
                    thumbnail |-> None]>>

C9_Witness ==
  /\ pc = "done"
  /\ status = 200
  /\ Len(media) = 3
  /\ media[1].url = UrlObj(<<"h", "t", "t", "p", "s", ":", "/", "/", "x", "/", "v", "i", "d", "e", "o", ".", "m", "p", "4">>)
  /\ media[2] = [type |-> "video", url |-> UrlObj(<<"h", "t", "t", "p", "s", ":", "/", "/", "x", "/", "v", "2", ".", "m", "p", "4">>),
                 thumbnail |-> None]
  /\ media[3] = [type |-> "image", url |-> UrlObj(<<"h", "t", "t", "p", "s", ":", "/", "/", "x", "/", "a", ".", "j", "p", "g">>),
                 thumbnail |-> UrlObj(<<"h", "t", "t", "p", "s", ":", "/", "/", "x", "/", "a", ".", "j", "p", "g">>)]

\* C10: with a valid url and a page fetched, the request ends with 422 and the
\* no-media message exactly when the page has none of the four tags and no
\* inline fragment, and with 200 and the non-empty list otherwise.
C10_422IffNothingFound ==
  (pc = "done" /\ resp.status_code = 200) =>
    IF PrimaryVideo = None /\ PrimaryImage = None /\ finditer(html) = <<>>
    THEN status = 422 /\ detail = MsgNoMedia /\ media = <<>>
    ELSE status = 200 /\ media # <<>>
=============================================================================
